---- MODULE Spec2Model ----
(***************************************************************************)
(* Model of mlagents.trainers.meta_curriculum.MetaCurriculum.              *)
(*                                                                         *)
(* A Python dict is modelled as a sequence of <<key, value>> pairs with    *)
(* pairwise distinct keys, in insertion order (dict iteration order).      *)
(* An Optional argument is <<>> for None and <<d>> for a supplied dict d.  *)
(* Every public method is one action; the action records the method name   *)
(* (op), its arguments (args), its return value (ret), the exception it    *)
(* propagated (raised) and the log of Curriculum.increment_lesson calls    *)
(* it made (calls).  The component is synchronous: the caller takes the    *)
(* outcome of a call (Continue) before it makes the next call.             *)
(***************************************************************************)
EXTENDS Integers, Sequences, FiniteSets, TLC

VARIABLES curricula, brains_to_curricula, warnings, op, args, ret, raised, calls

vars == <<curricula, brains_to_curricula, warnings, op, args, ret, raised, calls>>

----------------------------------------------------------------------------
(* Bounds of the model *)

MaxLessonNum == 2
MaxMinLessonLength == 2
MaxBuffSize == 2
MaxMeasure == 2

BuffSizes == 1..MaxBuffSize

BrainNames == {"A", "B"}
ParamKeySeqs == {<<"x">>, <<"y">>, <<"x", "y">>}

----------------------------------------------------------------------------
(* Python dict primitives *)

Keys(d) == {d[i][1] : i \in DOMAIN d}

Has(d, k) == \E i \in DOMAIN d : d[i][1] = k

Get(d, k) == d[CHOOSE i \in DOMAIN d : d[i][1] = k][2]

Put(d, k, v) ==
    IF Has(d, k)
    THEN [i \in DOMAIN d |-> IF d[i][1] = k THEN <<k, v>> ELSE d[i]]
    ELSE Append(d, <<k, v>>)

RECURSIVE Update(_, _, _)
Update(d, e, i) ==
    IF i > Len(e) THEN d ELSE Update(Put(d, e[i][1], e[i][2]), e, i + 1)

Distinct(s) == \A i, j \in DOMAIN s : i # j => s[i] # s[j]

KeySeqs(K) == {s \in UNION {[1..n -> K] : n \in 0..Cardinality(K)} : Distinct(s)}

Dicts(K, V) ==
    UNION {{[i \in DOMAIN ks |-> <<ks[i], vs[i]>>] : vs \in [DOMAIN ks -> V]} :
           ks \in KeySeqs(K)}

----------------------------------------------------------------------------
(* The Curriculum collaborator *)

ParamValue(brain_name, key, lesson) ==
    (IF brain_name = "A" THEN 100 ELSE 200)
    + (IF key = "x" THEN 10 ELSE 20) + lesson

Threshold(lesson) == lesson

Curriculum(brain_name, min_lesson_length, keys) ==
    [brain_name |-> brain_name,
     lesson_num |-> 0,
     min_lesson_length |-> min_lesson_length,
     parameters |-> keys]

CurriculumGetConfig(c) ==
    [i \in DOMAIN c.parameters |->
       <<c.parameters[i], ParamValue(c.brain_name, c.parameters[i], c.lesson_num)>>]

CurriculumIncrementLesson(c, measure_val) ==
    IF c.lesson_num < MaxLessonNum /\ measure_val > Threshold(c.lesson_num)
    THEN [curriculum |-> [c EXCEPT !.lesson_num = c.lesson_num + 1], result |-> TRUE]
    ELSE [curriculum |-> c, result |-> FALSE]

CurriculaInputs ==
    UNION {{[i \in DOMAIN ks |-> <<ks[i], Curriculum(ks[i], ml[i], pk[i])>>] :
              ml \in [DOMAIN ks -> 1..MaxMinLessonLength],
              pk \in [DOMAIN ks -> ParamKeySeqs]} :
           ks \in KeySeqs(BrainNames)}

----------------------------------------------------------------------------
(* MetaCurriculum.__init__ *)

RECURSIVE InitLoop_AlwaysUpdateFirst(_, _, _, _, _)
InitLoop_AlwaysUpdateFirst(cs, i, btc, used, warned) ==
    IF i > Len(cs) THEN [brains_to_curricula |-> btc, warnings |-> warned]
    ELSE LET config_keys == Keys(CurriculumGetConfig(cs[i][2]))
             used2 == used \cup config_keys
         IN InitLoop_AlwaysUpdateFirst(cs, i + 1, Put(btc, cs[i][1], cs[i][2]), used2,
                     IF config_keys \cap used2 # {} THEN warned + 1 ELSE warned)

RECURSIVE InitLoop(_, _, _, _, _)
InitLoop(cs, i, btc, used, warned) ==
    IF i > Len(cs) THEN [brains_to_curricula |-> btc, warnings |-> warned]
    ELSE LET config_keys == Keys(CurriculumGetConfig(cs[i][2]))
         IN InitLoop(cs, i + 1, Put(btc, cs[i][1], cs[i][2]),
                     used \cup config_keys,
                     IF config_keys \cap used # {} THEN warned + 1 ELSE warned)

MetaCurriculumInit(cs) == InitLoop(cs, 1, <<>>, {}, 0)

NoArgs == [measure_vals |-> <<>>, reward_buff_sizes |-> <<>>,
           lesson_nums |-> <<>>, lesson_num |-> 0]

Init ==
    /\ curricula \in CurriculaInputs
    /\ brains_to_curricula = MetaCurriculumInit(curricula).brains_to_curricula
    /\ warnings = MetaCurriculumInit(curricula).warnings
    /\ op = "__init__"
    /\ args = NoArgs
    /\ ret = <<>>
    /\ raised = "none"
    /\ calls = <<>>

----------------------------------------------------------------------------
(* lesson_nums getter *)

RECURSIVE LessonNumsGetLoop(_, _, _)
LessonNumsGetLoop(btc, i, lesson_nums) ==
    IF i > Len(btc) THEN lesson_nums
    ELSE LessonNumsGetLoop(btc, i + 1, Put(lesson_nums, btc[i][1], btc[i][2].lesson_num))

LessonNumsGet(btc) == LessonNumsGetLoop(btc, 1, <<>>)

GetLessonNums ==
    /\ op = "idle"
    /\ op' = "lesson_nums.get"
    /\ args' = NoArgs
    /\ ret' = LessonNumsGet(brains_to_curricula)
    /\ raised' = "none"
    /\ calls' = <<>>
    /\ UNCHANGED <<curricula, brains_to_curricula, warnings>>

----------------------------------------------------------------------------
(* lesson_nums setter *)

RECURSIVE LessonNumsSetLoop_SkipUnknown(_, _, _)
LessonNumsSetLoop_SkipUnknown(btc, lesson_nums, i) ==
    IF i > Len(lesson_nums) THEN [brains_to_curricula |-> btc, raised |-> "none"]
    ELSE LET brain_name == lesson_nums[i][1]
             lesson == lesson_nums[i][2]
         IN IF ~Has(btc, brain_name)
            THEN LessonNumsSetLoop_SkipUnknown(btc, lesson_nums, i + 1)
            ELSE LessonNumsSetLoop_SkipUnknown(
                     Put(btc, brain_name, [Get(btc, brain_name) EXCEPT !.lesson_num = lesson]),
                     lesson_nums, i + 1)

RECURSIVE LessonNumsSetLoop_OnlyRaise(_, _, _)
LessonNumsSetLoop_OnlyRaise(btc, lesson_nums, i) ==
    IF i > Len(lesson_nums) THEN [brains_to_curricula |-> btc, raised |-> "none"]
    ELSE LET brain_name == lesson_nums[i][1]
             lesson == lesson_nums[i][2]
         IN IF ~Has(btc, brain_name)
            THEN [brains_to_curricula |-> btc, raised |-> "KeyError"]
            ELSE LessonNumsSetLoop_OnlyRaise(
                     Put(btc, brain_name,
                         [Get(btc, brain_name) EXCEPT !.lesson_num =
                            IF lesson > @ THEN lesson ELSE @]),
                     lesson_nums, i + 1)

RECURSIVE LessonNumsSetLoop(_, _, _)
LessonNumsSetLoop(btc, lesson_nums, i) ==
    IF i > Len(lesson_nums) THEN [brains_to_curricula |-> btc, raised |-> "none"]
    ELSE LET brain_name == lesson_nums[i][1]
             lesson == lesson_nums[i][2]
         IN IF ~Has(btc, brain_name)
            THEN [brains_to_curricula |-> btc, raised |-> "KeyError"]
            ELSE LessonNumsSetLoop(
                     Put(btc, brain_name, [Get(btc, brain_name) EXCEPT !.lesson_num = lesson]),
                     lesson_nums, i + 1)

LessonNumsArgs == Dicts(BrainNames, 0..MaxLessonNum)

SetLessonNums ==
    /\ op = "idle"
    /\ \E lesson_nums \in LessonNumsArgs :
        \E r \in {LessonNumsSetLoop(brains_to_curricula, lesson_nums, 1)} :
           /\ brains_to_curricula' = r.brains_to_curricula
           /\ raised' = r.raised
           /\ op' = "lesson_nums.set"
           /\ args' = [NoArgs EXCEPT !.lesson_nums = lesson_nums]
           /\ ret' = <<>>
           /\ calls' = <<>>
           /\ UNCHANGED <<curricula, warnings>>

----------------------------------------------------------------------------
(* _lesson_ready_to_increment *)

LessonReadyToIncrement_Strict(btc, brain_name, reward_buff_size) ==
    IF ~Has(btc, brain_name) THEN FALSE
    ELSE reward_buff_size > Get(btc, brain_name).min_lesson_length

LessonReadyToIncrement(btc, brain_name, reward_buff_size) ==
    IF ~Has(btc, brain_name) THEN FALSE
    ELSE reward_buff_size >= Get(btc, brain_name).min_lesson_length

----------------------------------------------------------------------------
(* increment_lessons *)

Outcome(btc, r, c, e) ==
    [brains_to_curricula |-> btc, ret |-> r, calls |-> c, raised |-> e]

RECURSIVE IncrementReadyLoop_SkipMissing(_, _, _, _, _, _)
IncrementReadyLoop_SkipMissing(btc, measure_vals, buff, i, r, c) ==
    IF i > Len(buff) THEN Outcome(btc, r, c, "none")
    ELSE LET brain_name == buff[i][1]
             buff_size == buff[i][2]
         IN IF LessonReadyToIncrement(btc, brain_name, buff_size)
               /\ Has(measure_vals, brain_name)
            THEN LET measure_val == Get(measure_vals, brain_name)
                     inc == CurriculumIncrementLesson(Get(btc, brain_name), measure_val)
                 IN IncrementReadyLoop_SkipMissing(
                        Put(btc, brain_name, inc.curriculum), measure_vals, buff, i + 1,
                        Put(r, brain_name, inc.result),
                        Append(c, <<brain_name, measure_val, inc.result>>))
            ELSE IncrementReadyLoop_SkipMissing(btc, measure_vals, buff, i + 1, r, c)

RECURSIVE IncrementReadyLoop(_, _, _, _, _, _)
IncrementReadyLoop(btc, measure_vals, buff, i, r, c) ==
    IF i > Len(buff) THEN Outcome(btc, r, c, "none")
    ELSE LET brain_name == buff[i][1]
             buff_size == buff[i][2]
         IN IF LessonReadyToIncrement(btc, brain_name, buff_size)
            THEN IF ~Has(measure_vals, brain_name)
                 THEN Outcome(btc, <<>>, c, "KeyError")
                 ELSE LET measure_val == Get(measure_vals, brain_name)
                          inc == CurriculumIncrementLesson(Get(btc, brain_name), measure_val)
                      IN IncrementReadyLoop(
                             Put(btc, brain_name, inc.curriculum), measure_vals, buff, i + 1,
                             Put(r, brain_name, inc.result),
                             Append(c, <<brain_name, measure_val, inc.result>>))
            ELSE IncrementReadyLoop(btc, measure_vals, buff, i + 1, r, c)

RECURSIVE IncrementAllLoop_OnlyAdvanced(_, _, _, _, _)
IncrementAllLoop_OnlyAdvanced(btc, measure_vals, i, r, c) ==
    IF i > Len(measure_vals) THEN Outcome(btc, r, c, "none")
    ELSE LET brain_name == measure_vals[i][1]
             measure_val == measure_vals[i][2]
         IN IF ~Has(btc, brain_name)
            THEN Outcome(btc, <<>>, c, "KeyError")
            ELSE LET inc == CurriculumIncrementLesson(Get(btc, brain_name), measure_val)
                 IN IncrementAllLoop_OnlyAdvanced(
                        Put(btc, brain_name, inc.curriculum), measure_vals, i + 1,
                        IF inc.result THEN Put(r, brain_name, inc.result) ELSE r,
                        Append(c, <<brain_name, measure_val, inc.result>>))

RECURSIVE IncrementAllLoop_Twice(_, _, _, _, _)
IncrementAllLoop_Twice(btc, measure_vals, i, r, c) ==
    IF i > Len(measure_vals) THEN Outcome(btc, r, c, "none")
    ELSE LET brain_name == measure_vals[i][1]
             measure_val == measure_vals[i][2]
         IN IF ~Has(btc, brain_name)
            THEN Outcome(btc, <<>>, c, "KeyError")
            ELSE LET inc1 == CurriculumIncrementLesson(Get(btc, brain_name), measure_val)
                     inc == CurriculumIncrementLesson(inc1.curriculum, measure_val)
                 IN IncrementAllLoop_Twice(
                        Put(btc, brain_name, inc.curriculum), measure_vals, i + 1,
                        Put(r, brain_name, inc.result),
                        Append(Append(c, <<brain_name, measure_val, inc1.result>>),
                               <<brain_name, measure_val, inc.result>>))

RECURSIVE IncrementAllLoop(_, _, _, _, _)
IncrementAllLoop(btc, measure_vals, i, r, c) ==
    IF i > Len(measure_vals) THEN Outcome(btc, r, c, "none")
    ELSE LET brain_name == measure_vals[i][1]
             measure_val == measure_vals[i][2]
         IN IF ~Has(btc, brain_name)
            THEN Outcome(btc, <<>>, c, "KeyError")
            ELSE LET inc == CurriculumIncrementLesson(Get(btc, brain_name), measure_val)
                 IN IncrementAllLoop(
                        Put(btc, brain_name, inc.curriculum), measure_vals, i + 1,
                        Put(r, brain_name, inc.result),
                        Append(c, <<brain_name, measure_val, inc.result>>))

Truthy(reward_buff_sizes) == reward_buff_sizes # <<>> /\ reward_buff_sizes[1] # <<>>

IncrementLessonsCall(btc, measure_vals, reward_buff_sizes) ==
    IF Truthy(reward_buff_sizes)
    THEN IncrementReadyLoop(btc, measure_vals, reward_buff_sizes[1], 1, <<>>, <<>>)
    ELSE IncrementAllLoop(btc, measure_vals, 1, <<>>, <<>>)

BuffArgs == {<<>>} \cup {<<d>> : d \in Dicts(BrainNames, BuffSizes)}

MeasureValsArgs == Dicts(BrainNames, 0..MaxMeasure)

IncrementLessons ==
    /\ op = "idle"
    /\ \E measure_vals \in MeasureValsArgs, reward_buff_sizes \in BuffArgs :
        \E r \in {IncrementLessonsCall(brains_to_curricula, measure_vals, reward_buff_sizes)} :
           /\ brains_to_curricula' = r.brains_to_curricula
           /\ ret' = r.ret
           /\ raised' = r.raised
           /\ calls' = r.calls
           /\ op' = "increment_lessons"
           /\ args' = [NoArgs EXCEPT !.measure_vals = measure_vals,
                                     !.reward_buff_sizes = reward_buff_sizes]
           /\ UNCHANGED <<curricula, warnings>>

----------------------------------------------------------------------------
(* set_all_curricula_to_lesson_num *)

SetAllCall_SkipFirst(btc, lesson_num) ==
    [i \in DOMAIN btc |->
       IF i = 1 THEN btc[i] ELSE <<btc[i][1], [btc[i][2] EXCEPT !.lesson_num = lesson_num]>>]

SetAllCall(btc, lesson_num) ==
    [i \in DOMAIN btc |-> <<btc[i][1], [btc[i][2] EXCEPT !.lesson_num = lesson_num]>>]

SetAllCurriculaToLessonNum ==
    /\ op = "idle"
    /\ \E lesson_num \in 0..MaxLessonNum :
        /\ brains_to_curricula' = SetAllCall(brains_to_curricula, lesson_num)
        /\ op' = "set_all_curricula_to_lesson_num"
        /\ args' = [NoArgs EXCEPT !.lesson_num = lesson_num]
        /\ ret' = <<>>
        /\ raised' = "none"
        /\ calls' = <<>>
        /\ UNCHANGED <<curricula, warnings>>

----------------------------------------------------------------------------
(* get_config *)

RECURSIVE KeepFirst(_, _, _)
KeepFirst(d, e, i) ==
    IF i > Len(e) THEN d
    ELSE KeepFirst(IF Has(d, e[i][1]) THEN d ELSE Put(d, e[i][1], e[i][2]), e, i + 1)

RECURSIVE GetConfigLoop_FirstWins(_, _, _)
GetConfigLoop_FirstWins(btc, i, config) ==
    IF i > Len(btc) THEN config
    ELSE GetConfigLoop_FirstWins(btc, i + 1, KeepFirst(config, CurriculumGetConfig(btc[i][2]), 1))

RECURSIVE GetConfigLoop(_, _, _)
GetConfigLoop(btc, i, config) ==
    IF i > Len(btc) THEN config
    ELSE GetConfigLoop(btc, i + 1, Update(config, CurriculumGetConfig(btc[i][2]), 1))

GetConfigCall(btc) == GetConfigLoop(btc, 1, <<>>)

GetConfig ==
    /\ op = "idle"
    /\ ret' = GetConfigCall(brains_to_curricula)
    /\ op' = "get_config"
    /\ args' = NoArgs
    /\ raised' = "none"
    /\ calls' = <<>>
    /\ UNCHANGED <<curricula, brains_to_curricula, warnings>>

----------------------------------------------------------------------------
(* The caller takes the outcome of the call that just ended *)

Continue ==
    /\ op # "idle"
    /\ op' = "idle"
    /\ args' = NoArgs
    /\ ret' = <<>>
    /\ raised' = "none"
    /\ calls' = <<>>
    /\ UNCHANGED <<curricula, brains_to_curricula, warnings>>

Next ==
    \/ Continue
    \/ GetLessonNums
    \/ SetLessonNums
    \/ IncrementLessons
    \/ SetAllCurriculaToLessonNum
    \/ GetConfig

Spec == Init /\ [][Next]_vars

----------------------------------------------------------------------------
(* Vocabulary of the properties *)

Owned(btc) == Keys(btc)

LessonNum(btc, b) == Get(btc, b).lesson_num

BuffOf(a) == IF a.reward_buff_sizes = <<>> THEN <<>> ELSE a.reward_buff_sizes[1]

ReadyBrains(btc, buff) ==
    {b \in Keys(buff) \cap Owned(btc) : Get(buff, b) >= Get(btc, b).min_lesson_length}

CalledBrains(c) == {c[i][1] : i \in DOMAIN c}

ConfigKeysAt(cs, i) == Keys(CurriculumGetConfig(cs[i][2]))

IsIncrement == op = "increment_lessons"

----------------------------------------------------------------------------
(* C1: when increment_lessons is called with a non-empty reward_buff_sizes  *)
(* and returns, the keys of the result are exactly the owned brains of      *)
(* reward_buff_sizes whose buffer size is at least their curriculum's       *)
(* min_lesson_length, and each value is the boolean that the brain's        *)
(* curriculum returned from increment_lesson(measure_vals[brain]).          *)
C1_ReadyBrainsExactlyInResult ==
    [][(op' = "increment_lessons" /\ Truthy(args'.reward_buff_sizes) /\ raised' = "none") =>
          /\ Keys(ret') = ReadyBrains(brains_to_curricula, BuffOf(args'))
          /\ \A b \in Keys(ret') :
                Get(ret', b) = CurriculumIncrementLesson(Get(brains_to_curricula, b),
                                                         Get(args'.measure_vals, b)).result
      ]_vars

C1_Witness ==
    /\ IsIncrement /\ Truthy(args.reward_buff_sizes) /\ raised = "none"
    /\ \E b \in Keys(ret) : Get(ret, b) = TRUE
    /\ \E b \in Keys(BuffOf(args)) \cap Owned(brains_to_curricula) :
          /\ Get(BuffOf(args), b) < Get(brains_to_curricula, b).min_lesson_length
          /\ b \notin Keys(ret)

(* C2: when increment_lessons is called without buffer sizes (None or an    *)
(* empty dict) and returns, the keys of the result are exactly the keys of  *)
(* measure_vals, whatever min_lesson_length is, and each value is the       *)
(* boolean returned by the brain's curriculum for its measure value.        *)
C2_AllMeasuredBrainsInResult ==
    [][(op' = "increment_lessons" /\ ~Truthy(args'.reward_buff_sizes) /\ raised' = "none") =>
          /\ Keys(ret') = Keys(args'.measure_vals)
          /\ \A b \in Keys(ret') :
                Get(ret', b) = CurriculumIncrementLesson(Get(brains_to_curricula, b),
                                                         Get(args'.measure_vals, b)).result
      ]_vars

C2_Witness ==
    /\ IsIncrement /\ ~Truthy(args.reward_buff_sizes) /\ raised = "none"
    /\ Len(args.measure_vals) = 2
    /\ \E b \in Keys(ret) : Get(ret, b) = TRUE
    /\ \E b \in Keys(ret) : Get(ret, b) = FALSE

(* C3 as stated: whenever the lesson_nums setter or increment_lessons is    *)
(* given a mapping that names a brain the coordinator does not own, the     *)
(* call propagates a lookup failure.                                        *)
C3_UnknownBrainAlwaysRaises ==
    /\ (op = "lesson_nums.set" /\ ~(Keys(args.lesson_nums) \subseteq Owned(brains_to_curricula)))
          => raised = "KeyError"
    /\ (IsIncrement /\ ~((Keys(args.measure_vals) \cup Keys(BuffOf(args)))
                            \subseteq Owned(brains_to_curricula)))
          => raised = "KeyError"

(* C3 amended: the lesson_nums setter, and increment_lessons without buffer *)
(* sizes, propagate a lookup failure when their mapping names an unowned    *)
(* brain; increment_lessons with buffer sizes never attempts an unowned     *)
(* brain of reward_buff_sizes and fails exactly when an owned ready brain   *)
(* is missing from measure_vals.                                            *)
C3_UnknownBrainRaisesUnlessGated ==
    /\ (op = "lesson_nums.set" /\ ~(Keys(args.lesson_nums) \subseteq Owned(brains_to_curricula)))
          => raised = "KeyError"
    /\ (IsIncrement /\ ~Truthy(args.reward_buff_sizes)
          /\ ~(Keys(args.measure_vals) \subseteq Owned(brains_to_curricula)))
          => raised = "KeyError"
    /\ (IsIncrement /\ Truthy(args.reward_buff_sizes)) =>
          /\ \A b \in Keys(BuffOf(args)) \ Owned(brains_to_curricula) :
                b \notin Keys(ret) /\ b \notin CalledBrains(calls)
          /\ raised = "KeyError" <=>
                \E b \in ReadyBrains(brains_to_curricula, BuffOf(args)) :
                   b \notin Keys(args.measure_vals)

C3_Witness ==
    /\ op = "lesson_nums.set"
    /\ Len(args.lesson_nums) = 2
    /\ Len(brains_to_curricula) = 1
    /\ raised = "KeyError"

(* C4: in increment_lessons with buffer sizes supplied, if an owned brain   *)
(* of reward_buff_sizes is ready but absent from measure_vals, the call     *)
(* fails with a lookup failure, returns no result mapping, and that brain's *)
(* curriculum's increment_lesson is not called.                             *)
C4_ReadyBrainWithoutMeasureRaises ==
    (IsIncrement /\ Truthy(args.reward_buff_sizes)) =>
        \A b \in ReadyBrains(brains_to_curricula, BuffOf(args)) :
            b \notin Keys(args.measure_vals) =>
                /\ raised = "KeyError"
                /\ ret = <<>>
                /\ b \notin CalledBrains(calls)

C4_Witness ==
    /\ IsIncrement /\ Truthy(args.reward_buff_sizes)
    /\ raised = "KeyError"
    /\ Len(calls) = 1
    /\ \E b \in ReadyBrains(brains_to_curricula, BuffOf(args)) :
          b \notin Keys(args.measure_vals)

(* C5: for every call to increment_lessons, a brain's lesson number is      *)
(* incremented only if the measure threshold has been reached and the       *)
(* brain's reward-buffer size is at least its min_lesson_length.            *)
C5_AdvanceOnlyAfterMinLessonLength ==
    [][op' = "increment_lessons" =>
          \A b \in Owned(brains_to_curricula) :
              LessonNum(brains_to_curricula', b) > LessonNum(brains_to_curricula, b) =>
                  /\ Has(args'.measure_vals, b)
                  /\ Get(args'.measure_vals, b) >
                        Threshold(LessonNum(brains_to_curricula, b))
                  /\ Has(BuffOf(args'), b)
                  /\ Get(BuffOf(args'), b) >= Get(brains_to_curricula, b).min_lesson_length
      ]_vars

(* C6: get_config returns a mapping whose keys are the union of the config  *)
(* keys of all owned curricula, each with the value of the last curriculum  *)
(* in iteration order whose config has that key, and changes no lesson.     *)
C6_GetConfigLastWriterWins ==
    [][op' = "get_config" =>
          LET btc == brains_to_curricula
              LastWith(k) == CHOOSE i \in DOMAIN btc :
                                /\ k \in ConfigKeysAt(btc, i)
                                /\ \A j \in DOMAIN btc : k \in ConfigKeysAt(btc, j) => j <= i
          IN /\ Keys(ret') = UNION {ConfigKeysAt(btc, i) : i \in DOMAIN btc}
             /\ \A k \in Keys(ret') :
                   Get(ret', k) = Get(CurriculumGetConfig(btc[LastWith(k)][2]), k)
             /\ brains_to_curricula' = btc
      ]_vars

C6_Witness ==
    /\ op = "get_config"
    /\ Len(brains_to_curricula) = 2
    /\ ConfigKeysAt(brains_to_curricula, 1) \cap ConfigKeysAt(brains_to_curricula, 2) # {}
    /\ ConfigKeysAt(brains_to_curricula, 1) # ConfigKeysAt(brains_to_curricula, 2)
    /\ brains_to_curricula[1][2].lesson_num # brains_to_curricula[2][2].lesson_num

(* C7: construction never raises and stores every given curriculum under    *)
(* its brain name; it logs one warning for each curriculum whose config     *)
(* keys intersect the keys of the curricula processed before it, hence none *)
(* when the key sets are pairwise disjoint.                                 *)
C7_ConstructionWarnsPerCollidingCurriculum ==
    LET Colliding == {i \in DOMAIN curricula :
                         ConfigKeysAt(curricula, i)
                            \cap UNION {ConfigKeysAt(curricula, j) : j \in 1..(i - 1)} # {}}
        Disjoint == \A i, j \in DOMAIN curricula :
                        i # j => ConfigKeysAt(curricula, i) \cap ConfigKeysAt(curricula, j) = {}
    IN /\ warnings = Cardinality(Colliding)
       /\ Disjoint <=> warnings = 0
       /\ op = "__init__" =>
             /\ raised = "none"
             /\ Keys(brains_to_curricula) = Keys(curricula)
             /\ \A b \in Keys(curricula) : Get(brains_to_curricula, b) = Get(curricula, b)

C7_Witness ==
    /\ op = "__init__"
    /\ Len(curricula) = 2
    /\ ConfigKeysAt(curricula, 1) \cap ConfigKeysAt(curricula, 2) # {}
    /\ warnings = 1

(* C8: after set_all_curricula_to_lesson_num(k) the lesson_nums getter has  *)
(* exactly the owned brains as keys and returns k for every one of them.    *)
C8_SetAllThenGetterReturnsK ==
    op = "set_all_curricula_to_lesson_num" =>
        /\ Keys(LessonNumsGet(brains_to_curricula)) = Keys(curricula)
        /\ \A b \in Keys(curricula) :
              Get(LessonNumsGet(brains_to_curricula), b) = args.lesson_num

C8_Witness ==
    /\ op = "set_all_curricula_to_lesson_num"
    /\ Len(brains_to_curricula) = 2
    /\ args.lesson_num = 1
    /\ \A b \in Keys(curricula) : Get(LessonNumsGet(brains_to_curricula), b) = 1

(* C9: writing lesson_nums with a mapping m of owned brains makes the       *)
(* getter return m[b] for every brain of m and the previous lesson number   *)
(* for every other owned brain, and leaves the set of owned brains as is.   *)
C9_SetterOverridesOnlyGivenBrains ==
    [][(op' = "lesson_nums.set"
          /\ Keys(args'.lesson_nums) \subseteq Owned(brains_to_curricula)) =>
          LET m == args'.lesson_nums
              before == LessonNumsGet(brains_to_curricula)
              after == LessonNumsGet(brains_to_curricula')
          IN /\ raised' = "none"
             /\ Keys(after) = Keys(before)
             /\ Owned(brains_to_curricula') = Owned(brains_to_curricula)
             /\ \A b \in Keys(m) : Get(after, b) = Get(m, b)
             /\ \A b \in Keys(before) \ Keys(m) : Get(after, b) = Get(before, b)
      ]_vars

C9_Witness ==
    /\ op = "lesson_nums.set" /\ raised = "none"
    /\ Len(args.lesson_nums) = 1
    /\ Len(brains_to_curricula) = 2
    /\ \E b \in Keys(args.lesson_nums) : Get(args.lesson_nums, b) = 0
    /\ \E b \in Owned(brains_to_curricula) \ Keys(args.lesson_nums) :
          LessonNum(brains_to_curricula, b) = 1

(* C10: no increment_lessons call lowers a lesson number; a call that       *)
(* returns invokes each curriculum's increment_lesson at most once, raises  *)
(* the lesson number by exactly one for a brain whose result is true and    *)
(* leaves it unchanged for a brain whose result is false or absent.         *)
C10_IncrementIsMonotoneByOne ==
    [][op' = "increment_lessons" =>
          /\ \A b \in Owned(brains_to_curricula) :
                LessonNum(brains_to_curricula', b) >= LessonNum(brains_to_curricula, b)
          /\ raised' = "none" =>
                /\ \A b \in Owned(brains_to_curricula) :
                      Cardinality({i \in DOMAIN calls' : calls'[i][1] = b}) <= 1
                /\ \A b \in Owned(brains_to_curricula) :
                      LessonNum(brains_to_curricula', b) =
                         IF Has(ret', b) /\ Get(ret', b)
                         THEN LessonNum(brains_to_curricula, b) + 1
                         ELSE LessonNum(brains_to_curricula, b)
      ]_vars

C10_Witness ==
    /\ IsIncrement /\ raised = "none"
    /\ Len(brains_to_curricula) = 2
    /\ \E b \in Keys(ret) : Get(ret, b) = TRUE /\ LessonNum(brains_to_curricula, b) = 1
    /\ \E b \in Owned(brains_to_curricula) : b \notin Keys(ret)

====
